---- MODULE Spec2Model ----
(***************************************************************************)
(* Elibrary: the borrow / return workflow of BorrowManager, the book and   *)
(* member CRUD of BookManager, and the navigation of App, as one state     *)
(* machine.  The three collections (books, users, borrows) are the React   *)
(* state of the mounted section; usePersistentState writes them to         *)
(* localStorage after every committed render and reads them back on mount. *)
(* A collection the mounted section does not hold (borrows, outside the    *)
(* Borrow Manager) keeps the value of its last committed render.           *)
(*                                                                         *)
(* Spec is the application used through its pages, every submission at a  *)
(* later clock value, the search box and status filter of the borrow list  *)
(* left as they are; SpecView adds the search box and the status filter;   *)
(* SpecHandlers calls handleReturn with ids that are not rows of the list; *)
(* SpecSameClock has submissions that read the same clock value; SpecPages *)
(* has tables of more than one page and their pagination controls;         *)
(* SpecDashboard has the Dashboard's loading timer and timeframe select.   *)
(***************************************************************************)
EXTENDS Integers, Sequences, FiniteSets, TLC

VARIABLES activeSection, crashed, error, now, books, users, borrows,
          searchQuery, filter, localStorage,
          currentPage, currentBookPage, currentUserPage, userSearchQuery,
          isLoading, timer, timeframe

vars == <<activeSection, crashed, error, now, books, users, borrows,
          searchQuery, filter, localStorage,
          currentPage, currentBookPage, currentUserPage, userSearchQuery,
          isLoading, timer, timeframe>>
data == <<books, users, borrows>>

\* The search box, the filter and the page of the table of the mounted
\* section (searchQuery and filter are state of BorrowManager and of
\* BookManager alike), and the search box and the page of the members table.
view == <<searchQuery, filter, currentPage, currentBookPage, currentUserPage,
          userSearchQuery, isLoading, timer, timeframe>>

\* The loading flag of the mounted section, the pending timeout of the
\* Dashboard's loading effect, and the Dashboard's timeframe select.
dash == <<isLoading, timer, timeframe>>

(***************************************************************************)
(* Bounds of the model.                                                    *)
(***************************************************************************)
MaxBorrows == 3
MaxBooks == 2
MaxUsers == 2
MaxCopies == 2
MaxPage == 2

\* const ROWS_PER_PAGE = 10
ROWS_PER_PAGE == 10

(***************************************************************************)
(* JavaScript values.  An identifier is either a number or a string; a     *)
(* string is either the decimal text of a number ("digits") or some other  *)
(* text.  === never equates a number with a string.                        *)
(***************************************************************************)
Num(n) == [kind |-> "number", v |-> n]
Digits(n) == [kind |-> "digits", v |-> n]
Text(n) == [kind |-> "text", v |-> n]
NaN == [kind |-> "NaN", v |-> 0]
Undefined == "undefined"
Null == -1

\* String(x): the value attribute of an <option value={x.id}>, as read back
\* from e.target.value.
String(x) == IF x.kind = "number" THEN Digits(x.v) ELSE x

\* parseInt(s)
parseInt(s) ==
    CASE s.kind = "digits" -> Num(s.v)
      [] s.kind = "number" -> s
      [] OTHER -> NaN

\* a === b
StrictEq(a, b) == a.kind # "NaN" /\ a = b

(***************************************************************************)
(* Texts.  A text the model uses is named by a string; Chars gives its     *)
(* characters, on which toLowerCase and includes work.                     *)
(***************************************************************************)
Chars(s) ==
    CASE s = "" -> << >>
      [] s = "Ann" -> <<"A", "n", "n">>
      [] s = "Bob" -> <<"B", "o", "b">>
      [] s = "Emma" -> <<"E", "m", "m", "a">>
      [] s = "Dune" -> <<"D", "u", "n", "e">>
      [] s = "AN" -> <<"A", "N">>
      [] s = "un" -> <<"u", "n">>

LowerChar(c) ==
    CASE c = "A" -> "a"
      [] c = "B" -> "b"
      [] c = "D" -> "d"
      [] c = "E" -> "e"
      [] c = "N" -> "n"
      [] OTHER -> c

\* s.toLowerCase(), on the characters of s.
toLowerCase(cs) == [i \in 1..Len(cs) |-> LowerChar(cs[i])]

\* hay.includes(needle), on characters.
includes(hay, needle) ==
    \/ needle = << >>
    \/ \E k \in 0..(Len(hay) - Len(needle)) :
          SubSeq(hay, k + 1, k + Len(needle)) = needle

(***************************************************************************)
(* The clock.  Time is counted in hours of UTC from the start of the       *)
(* window; the machine's time zone is two hours ahead of UTC until DstEnd  *)
(* and one hour ahead from then on.  The run starts at 10:00 UTC of day 0; *)
(* later events are observed at 23:00 UTC of day 0, before the offset      *)
(* changes, and at 23:00 UTC of day 1, after it; the list of borrows is    *)
(* also looked at in the morning (10:00 UTC) of day 1 and of day 2.        *)
(* Date.now() has a resolution of a millisecond and two form submissions   *)
(* are several user interface events apart, so in Spec every submission    *)
(* that stamps an id reads a later clock value than the event before it;   *)
(* SpecSameClock drops that assumption.                                    *)
(***************************************************************************)
DstEnd == 24 + 1
Instants == {23, 47}
Mornings == {34, 58}

TzOffset(t) == IF t < DstEnd THEN 2 ELSE 1

\* The wall-clock reading (local hours) of instant t.
LocalTime(t) == t + TzOffset(t)

\* The instant at which the local wall clock reads w.
FromLocal(w) == IF w - 2 < DstEnd THEN w - 2 ELSE w - 1

\* date.toISOString().split('T')[0]: the UTC calendar day of instant t.
ISODate(t) == t \div 24

\* new Date('YYYY-MM-DD'): a date-only text is read as 00:00 UTC of that day.
DateParse(d) == 24 * d

\* dueDate.setDate(today.getDate() + d): same wall-clock time, d local
\* calendar days later.
SetDate(t, d) == FromLocal(LocalTime(t) + 24 * d)

(***************************************************************************)
(* Sequence helpers: Array.prototype.map / filter / find.                  *)
(***************************************************************************)
Map(s, F(_)) == [i \in 1..Len(s) |-> F(s[i])]

Filter(s, P(_)) == SelectSeq(s, P)

Range(s) == {s[i] : i \in 1..Len(s)}

Found(s, P(_)) == \E i \in 1..Len(s) : P(s[i])

Find(s, P(_)) == s[CHOOSE i \in 1..Len(s) : P(s[i]) /\ \A j \in 1..(i - 1) : ~P(s[j])]

(***************************************************************************)
(* Seed data (lib-data.json).                                              *)
(***************************************************************************)
SeedBooks ==
    << [id |-> Num(1), title |-> "Emma", count |-> 1, totalCopies |-> 1],
       [id |-> Num(2), title |-> "Dune", count |-> 1, totalCopies |-> 2] >>

SeedUsers == << [id |-> Text(1), name |-> "Ann"] >>

SeedBorrows ==
    << [id |-> Num(1), bookId |-> Num(2), userId |-> Text(1), userName |-> "Ann",
        borrowDate |-> 0, dueDate |-> 1, returnDate |-> Null, status |-> "active"] >>

Sections == {"dashboard", "books", "borrows"}

(***************************************************************************)
(* usePersistentState and localStorage.  An item of localStorage is absent *)
(* (getItem returns null), the empty text, a text that is not JSON, or the *)
(* JSON text of a value.                                                   *)
(***************************************************************************)
\* `${STORAGE_KEY}_books`, `${STORAGE_KEY}_users`, `${STORAGE_KEY}_borrows`
Keys == {"books", "users", "borrows"}

Absent == [kind |-> "null", value |-> <<>>]
EmptyText == [kind |-> "empty", value |-> <<>>]
NotJSON == [kind |-> "garbage", value |-> <<>>]

\* JSON.stringify of an identifier: NaN is written as null.
StringifyValue(x) == IF x.kind = "NaN" THEN [kind |-> "null", v |-> 0] ELSE x

\* JSON.stringify of a record: a property whose value is undefined is left
\* out.
StringifyRecord(r) ==
    [f \in {g \in DOMAIN r : ~(g = "userName" /\ r[g] = Undefined)} |->
        IF f \in {"id", "bookId", "userId"} THEN StringifyValue(r[f]) ELSE r[f]]

\* JSON.stringify(state)
JSONStringify(state) == [kind |-> "json", value |-> Map(state, StringifyRecord)]

\* JSON.parse(saved) of a JSON text.
JSONParse(saved) == saved.value

\* Fault variant of Load: an empty collection counts as nothing saved.
LoadEmptyAsDefault(store, key, initialData) ==
    LET saved == store[key]
    IN  IF saved.kind \in {"null", "empty"} THEN initialData
        ELSE IF saved.kind = "garbage" THEN initialData
        ELSE IF JSONParse(saved) = <<>> THEN initialData
        ELSE JSONParse(saved)

\* The initializer of useState in usePersistentState:
\*   try { const saved = localStorage.getItem(key);
\*         return saved ? JSON.parse(saved) : initialData; }
\*   catch { return initialData; }
Load(store, key, initialData) ==
    LET saved == store[key]
    IN  IF saved.kind \in {"null", "empty"} THEN initialData
        ELSE IF saved.kind = "garbage" THEN initialData
        ELSE JSONParse(saved)

\* The collections a section holds with usePersistentState.
Held(section) ==
    IF section = "borrows" THEN {"books", "users", "borrows"} ELSE {"books", "users"}

\* Fault variant of Saved: the borrows item is never written.
SavedWithoutBorrows(store, section, b, u, bw) ==
    [k \in Keys |->
        IF k \in Held(section) \ {"borrows"}
        THEN JSONStringify(IF k = "books" THEN b ELSE u)
        ELSE store[k]]

\* The effects of usePersistentState after a committed render of `section`
\* with the collections b, u, bw:
\*   useEffect(() => localStorage.setItem(key, JSON.stringify(state)), [key, state])
Saved(store, section, b, u, bw) ==
    [k \in Keys |->
        IF k \in Held(section)
        THEN JSONStringify(CASE k = "books" -> b [] k = "users" -> u [] OTHER -> bw)
        ELSE store[k]]

\* The effects run after the render that an event causes, unless that
\* render throws.  (An event that changes no collection runs none of them:
\* their dependencies are [key, state].)
SaveEffects ==
    localStorage' = IF crashed' THEN localStorage
                    ELSE Saved(localStorage, activeSection', books', users', borrows')

\* An element null of a stored array (the text '[null]' holds one).
NullElement == [kind |-> "null", v |-> 0]

IsNullElement(x) == x = NullElement

\* The try block of the stats computation of the Dashboard throws:
\* books.reduce((acc, book) => acc + (book.count || 0), 0) reads count of
\* null.
StatsThrows(b) == \E i \in 1..Len(b) : IsNullElement(b[i])

\* The render of the Book Manager (book.title in filteredBooks) or of the
\* Borrow Manager (book.count in books.some) throws.
RenderThrows(section, b) ==
    section \in {"books", "borrows"} /\ \E i \in 1..Len(b) : IsNullElement(b[i])

\* setError('Error calculating statistics') in the catch of the stats
\* computation; null otherwise.
ErrorOfMount(section, b) ==
    IF section = "dashboard" /\ StatsThrows(b)
    THEN "Error calculating statistics"
    ELSE "null"

\* App renders the dashboard first: it reads books and users, nothing being
\* stored yet, and its effects store them.  The Dashboard starts with
\* isLoading true and its loading effect sets a timeout.
Init ==
    /\ activeSection = "dashboard"
    /\ crashed = FALSE
    /\ error = "null"
    /\ isLoading = TRUE
    /\ timer = TRUE
    /\ timeframe = "monthly"
    /\ now = 10
    /\ books = Load([k \in Keys |-> Absent], "books", SeedBooks)
    /\ users = Load([k \in Keys |-> Absent], "users", SeedUsers)
    /\ borrows = SeedBorrows
    /\ searchQuery = ""
    /\ filter = "all"
    /\ currentPage = 1
    /\ currentBookPage = 1
    /\ currentUserPage = 1
    /\ userSearchQuery = ""
    /\ localStorage = Saved([k \in Keys |-> Absent], "dashboard", books, users, borrows)

(***************************************************************************)
(* App                                                                     *)
(***************************************************************************)
\* Navigation: setActiveSection(item.id).  The section that mounts reads
\* its collections from localStorage.
SetActiveSection(s) ==
    /\ ~crashed
    /\ activeSection' = s
    /\ IF s = activeSection
       THEN UNCHANGED <<error, crashed, view, data>>
       ELSE /\ books' = Load(localStorage, "books", SeedBooks)
            /\ users' = Load(localStorage, "users", SeedUsers)
            /\ borrows' = IF "borrows" \in Held(s)
                          THEN Load(localStorage, "borrows", SeedBorrows)
                          ELSE borrows
            /\ error' = ErrorOfMount(s, books')
            /\ crashed' = RenderThrows(s, books')
            /\ isLoading' = (s = "dashboard")
            /\ timer' = (s = "dashboard")
            /\ timeframe' = "monthly"
            /\ searchQuery' = ""
            /\ filter' = "all"
            /\ currentPage' = 1
            /\ currentBookPage' = 1
            /\ currentUserPage' = 1
            /\ userSearchQuery' = ""
    /\ UNCHANGED now
    /\ SaveEffects

\* The page is loaded again: App starts on the dashboard and every section
\* state is read from localStorage.
Reload ==
    /\ activeSection' = "dashboard"
    /\ crashed' = FALSE
    /\ books' = Load(localStorage, "books", SeedBooks)
    /\ users' = Load(localStorage, "users", SeedUsers)
    /\ error' = ErrorOfMount("dashboard", books')
    /\ isLoading' = TRUE
    /\ timer' = TRUE
    /\ timeframe' = "monthly"
    /\ searchQuery' = ""
    /\ filter' = "all"
    /\ currentPage' = 1
    /\ currentBookPage' = 1
    /\ currentUserPage' = 1
    /\ userSearchQuery' = ""
    /\ UNCHANGED <<now, borrows>>
    /\ SaveEffects

\* Time passes.
Tick ==
    /\ \E t \in Instants : t > now /\ now' = t
    /\ UNCHANGED <<activeSection, crashed, error, data, view, localStorage>>

\* Time passes until a morning.
TickMorning ==
    /\ \E t \in Mornings : t > now /\ now' = t
    /\ UNCHANGED <<activeSection, crashed, error, data, view, localStorage>>

(***************************************************************************)
(* BorrowManager                                                           *)
(***************************************************************************)
\* The section is mounted and renders its page (not the error box).
BorrowManagerShown == activeSection = "borrows" /\ ~crashed /\ error = "null"

\* The component is mounted (its handlers exist), whatever it renders.
BorrowManagerMounted == activeSection = "borrows" /\ ~crashed

\* <option key={user.id} value={user.id}>: the values the user select offers.
UserOptions == {String(users[i].id) : i \in 1..Len(users)}

\* Fault variant of BookOptions: the count > 0 filter is missing.
BookOptionsUnfiltered == {String(b.id) : b \in Range(books)}

\* books.filter(book => book.count > 0).map(<option value={book.id}>)
BookOptions == {String(b.id) : b \in {x \in Range(books) : x.count > 0}}

\* The New Borrow button: disabled={!books.some(book => book.count > 0)}
NewBorrowEnabled == \E b \in Range(books) : b.count > 0

\* What the duration field can hold: parseInt(e.target.value) of a typed
\* text (the empty text parses to NaN); 14 is the field's initial value.
DurationInputs == {parseInt(Digits(n)) : n \in {0, 14, 31}} \cup {parseInt(Text(0))}

\* Fault variant of DurationValid: the max="30" attribute is missing.
DurationValidNoMax(d) == d.kind = "number" /\ 1 <= d.v

\* <input type="number" required min="1" max="30">: the browser submits the
\* form only when the field satisfies its constraints.
DurationValid(d) == d.kind = "number" /\ 1 <= d.v /\ d.v <= 30

\* The record handleBorrow builds at instant t.
NewBorrow(selectedUser, selectedBook, borrowDuration, t) ==
    [id |-> Num(t),
     bookId |-> parseInt(selectedBook),
     userId |-> selectedUser,
     userName |-> IF Found(users, LAMBDA u : StrictEq(u.id, selectedUser))
                  THEN Find(users, LAMBDA u : StrictEq(u.id, selectedUser)).name
                  ELSE Undefined,
     borrowDate |-> ISODate(t),
     dueDate |-> ISODate(SetDate(t, borrowDuration.v)),
     returnDate |-> Null,
     status |-> "active"]

\* Fault variant of BorrowsAfterBorrow: the new record is put at the end.
BorrowsAfterBorrowAppend(prev, newBorrow) == Append(prev, newBorrow)

\* setBorrows(prev => [newBorrow, ...prev])
BorrowsAfterBorrow(prev, newBorrow) == <<newBorrow>> \o prev

\* setBooks(prev => prev.map(book => book.id === parseInt(selectedBook)
\*   ? { ...book, count: book.count - 1 } : book))
BooksAfterBorrow(prev, selectedBook) ==
    Map(prev, LAMBDA book : IF StrictEq(book.id, parseInt(selectedBook))
                            THEN [book EXCEPT !.count = @ - 1]
                            ELSE book)

\* Rendering BorrowManager computes filteredBorrows, which reads
\* borrow.userName.toLowerCase() of every record: it throws on a record
\* whose userName is undefined.
FilterThrows(bws) == \E i \in 1..Len(bws) : bws[i].userName = Undefined

\* handleBorrow at instant t, the render that follows it and the save
\* effects of that render.  A render that throws unmounts the application
\* before the effects run, so nothing is saved.
handleBorrow(selectedUser, selectedBook, borrowDuration, t) ==
    LET newBorrow == NewBorrow(selectedUser, selectedBook, borrowDuration, t)
        nextBorrows == BorrowsAfterBorrow(borrows, newBorrow)
        nextBooks == BooksAfterBorrow(books, selectedBook)
    IN  /\ now' = t
        /\ IF FilterThrows(nextBorrows)
           THEN /\ crashed' = TRUE
                /\ UNCHANGED <<data, error>>
           ELSE /\ borrows' = nextBorrows
                /\ books' = nextBooks
                /\ UNCHANGED <<users, crashed, error>>
        /\ UNCHANGED <<activeSection, view>>
        /\ SaveEffects

\* The borrow form is opened, filled in and submitted.
SubmitBorrow ==
    /\ BorrowManagerShown
    /\ NewBorrowEnabled
    /\ Len(borrows) < MaxBorrows
    /\ \E selectedUser \in UserOptions, selectedBook \in BookOptions,
          borrowDuration \in DurationInputs, t \in Instants :
          /\ t > now
          /\ DurationValid(borrowDuration)
          /\ handleBorrow(selectedUser, selectedBook, borrowDuration, t)

\* Fault variant of ReturnButtonShown: the button is rendered on every row.
ReturnButtonAlways(borrow) == TRUE

\* {borrow.status === 'active' && <button onClick={() => handleReturn(borrow.id)}>}
ReturnButtonShown(borrow) == borrow.status = "active"

\* Fault variant of BorrowsAfterReturn: the returned record is removed.
BorrowsAfterReturnDrop(prev, borrowId, today) ==
    Filter(prev, LAMBDA b : ~StrictEq(b.id, borrowId))

\* Fault variant of BorrowsAfterReturn: the id test is missing.
BorrowsAfterReturnAll(prev, borrowId, today) ==
    Map(prev, LAMBDA b : [b EXCEPT !.returnDate = today, !.status = "returned"])

\* setBorrows(prev => prev.map(b => b.id === borrowId
\*   ? { ...b, returnDate: today, status: 'returned' } : b))
BorrowsAfterReturn(prev, borrowId, today) ==
    Map(prev, LAMBDA b : IF StrictEq(b.id, borrowId)
                         THEN [b EXCEPT !.returnDate = today, !.status = "returned"]
                         ELSE b)

\* Fault variant of BooksAfterReturn: the id test is missing.
BooksAfterReturnAll(prev, bookId) ==
    Map(prev, LAMBDA book : [book EXCEPT !.count = @ + 1])

\* setBooks(prev => prev.map(book => book.id === borrow.bookId
\*   ? { ...book, count: book.count + 1 } : book))
BooksAfterReturn(prev, bookId) ==
    Map(prev, LAMBDA book : IF StrictEq(book.id, bookId)
                            THEN [book EXCEPT !.count = @ + 1]
                            ELSE book)

\* Fault variant of handleReturn: the test of the record found is missing,
\* so that the updater of setBooks reads borrow.bookId of undefined and the
\* render that runs it throws.
handleReturnUnchecked(borrowId) ==
    /\ IF ~Found(borrows, LAMBDA b : StrictEq(b.id, borrowId))
       THEN /\ crashed' = TRUE
            /\ UNCHANGED <<data, error>>
       ELSE LET borrow == Find(borrows, LAMBDA b : StrictEq(b.id, borrowId))
                today == ISODate(now)
            IN  /\ borrows' = BorrowsAfterReturn(borrows, borrowId, today)
                /\ books' = BooksAfterReturn(books, borrow.bookId)
                /\ UNCHANGED <<users, error, crashed>>
    /\ UNCHANGED <<activeSection, now, view>>
    /\ SaveEffects

handleReturn(borrowId) ==
    /\ IF ~Found(borrows, LAMBDA b : StrictEq(b.id, borrowId))
       THEN /\ error' = "Failed to process return: Borrow record not found"
            /\ UNCHANGED data
       ELSE LET borrow == Find(borrows, LAMBDA b : StrictEq(b.id, borrowId))
                today == ISODate(now)
            IN  /\ borrows' = BorrowsAfterReturn(borrows, borrowId, today)
                /\ books' = BooksAfterReturn(books, borrow.bookId)
                /\ UNCHANGED <<users, error>>
    /\ UNCHANGED <<activeSection, crashed, now, view>>
    /\ SaveEffects

\* borrow.status === 'active' && new Date(borrow.dueDate) < new Date():
\* the test of overdueCount and of the badge of a row.
isOverdue(borrow) ==
    borrow.status = "active" /\ DateParse(borrow.dueDate) < now

\* borrows.filter(isOverdue).length
overdueCount == Len(Filter(borrows, isOverdue))

\* The options of the status filter.
Filters == {"all", "active", "overdue", "returned"}

\* What is typed in the search box.
Queries == {"", "AN", "un"}

\* matchesSearch of filteredBorrows: userName matches, or the linked book
\* is found and its title matches (books.find(...)?.title... is undefined,
\* hence falsy, when no book is found).
matchesSearch(borrow) ==
    \/ includes(toLowerCase(Chars(borrow.userName)), toLowerCase(Chars(searchQuery)))
    \/ /\ Found(books, LAMBDA b : StrictEq(b.id, borrow.bookId))
       /\ includes(toLowerCase(Chars(Find(books, LAMBDA b : StrictEq(b.id, borrow.bookId)).title)),
                   toLowerCase(Chars(searchQuery)))

\* Fault variant of inFilter: 'overdue' does not test the status.
inFilterOverdueAnyStatus(borrow) ==
    CASE filter = "all" -> matchesSearch(borrow)
      [] filter = "active" -> matchesSearch(borrow) /\ borrow.status = "active"
      [] filter = "overdue" ->
            matchesSearch(borrow) /\ DateParse(borrow.dueDate) < now
      [] filter = "returned" -> matchesSearch(borrow) /\ borrow.status = "returned"
      [] OTHER -> matchesSearch(borrow)

\* The callback of borrows.filter in filteredBorrows.
inFilter(borrow) ==
    CASE filter = "all" -> matchesSearch(borrow)
      [] filter = "active" -> matchesSearch(borrow) /\ borrow.status = "active"
      [] filter = "overdue" ->
            /\ matchesSearch(borrow)
            /\ borrow.status = "active"
            /\ DateParse(borrow.dueDate) < now
      [] filter = "returned" -> matchesSearch(borrow) /\ borrow.status = "returned"
      [] OTHER -> matchesSearch(borrow)

filteredBorrows == Filter(borrows, inFilter)

\* array.slice(start, end) for 0 <= start
Slice(s, start, end) == SubSeq(s, start + 1, IF end < Len(s) THEN end ELSE Len(s))

\* Math.ceil(length / ROWS_PER_PAGE)
PagesOf(length) == (length + ROWS_PER_PAGE - 1) \div ROWS_PER_PAGE

totalPages == PagesOf(Len(filteredBorrows))

\* filteredBorrows.slice(startIndex, endIndex): the rows of the table.
currentBorrows ==
    Slice(filteredBorrows, (currentPage - 1) * ROWS_PER_PAGE,
          (currentPage - 1) * ROWS_PER_PAGE + ROWS_PER_PAGE)

\* Fault variant of PageAfterChange: the page is kept.
PageKept(changed, page) == page

\* useEffect(() => { setCurrentPage(1); }, [searchQuery, filter]): the page
\* after a render in which a dependency has (or has not) changed.
PageAfterChange(changed, page) == IF changed THEN 1 ELSE page

\* onChange of the search box: setSearchQuery(e.target.value)
SetSearchQuery ==
    /\ BorrowManagerShown
    /\ \E q \in Queries :
          /\ searchQuery' = q
          /\ currentPage' = PageAfterChange(q # searchQuery, currentPage)
    /\ UNCHANGED <<activeSection, crashed, error, now, data, filter,
                   currentBookPage, currentUserPage, userSearchQuery,
                   localStorage, dash>>

\* onChange of the status select: setFilter(e.target.value)
SetFilter ==
    /\ BorrowManagerShown
    /\ \E f \in Filters :
          /\ filter' = f
          /\ currentPage' = PageAfterChange(f # filter, currentPage)
    /\ UNCHANGED <<activeSection, crashed, error, now, data, searchQuery,
                   currentBookPage, currentUserPage, userSearchQuery,
                   localStorage, dash>>

\* handlePageChange(page)
handlePageChange(page) ==
    /\ currentPage' = page
    /\ UNCHANGED <<activeSection, crashed, error, now, data, searchQuery, filter,
                   currentBookPage, currentUserPage, userSearchQuery,
                   localStorage, dash>>

\* A click on the previous-page or the next-page button, which are rendered
\* when filteredBorrows is not empty; the former is disabled on page 1, the
\* latter on page totalPages.
ClickPage ==
    /\ BorrowManagerShown
    /\ Len(filteredBorrows) > 0
    /\ \/ currentPage # 1 /\ handlePageChange(currentPage - 1)
       \/ /\ currentPage # totalPages
          /\ currentPage < MaxPage
          /\ handlePageChange(currentPage + 1)

\* A click on the Return Book button of a row of the table.
ClickReturn ==
    /\ BorrowManagerShown
    /\ LET rows == currentBorrows
       IN  \E i \in 1..Len(rows) :
              /\ ReturnButtonShown(rows[i])
              /\ handleReturn(rows[i].id)

\* The ids handleReturn is called with when the caller is not a row of the
\* list: the ids of the clock values and of the seed, as numbers and as the
\* text of a number.
ReturnIds == {Num(0), Num(1), Digits(1), Num(23), Num(47)}

\* handleReturn called with any id, its increments of count capped.
CallReturn ==
    /\ BorrowManagerMounted
    /\ \A i \in 1..Len(books) : books[i].count <= MaxCopies
    /\ \E borrowId \in ReturnIds : handleReturn(borrowId)

\* The borrow form submitted while the clock still reads the value of the
\* event before.
SubmitBorrowSameClock ==
    /\ BorrowManagerShown
    /\ NewBorrowEnabled
    /\ Len(borrows) < MaxBorrows
    /\ \E selectedUser \in UserOptions, selectedBook \in BookOptions,
          borrowDuration \in DurationInputs :
          /\ DurationValid(borrowDuration)
          /\ handleBorrow(selectedUser, selectedBook, borrowDuration, now)

(***************************************************************************)
(* BookManager                                                             *)
(***************************************************************************)
BookManagerShown == activeSection = "books" /\ ~crashed

Max(a, b) == IF a >= b THEN a ELSE b

\* What is typed in the Number of Copies field:
\* <input type="number" required min="1">.
CountInputs == {1, 2}

\* The Title field: <input type="text" required>.
Titles == {"Emma"}

\* The Name field of the member form.
Names == {"Ann", "Bob"}

\* The options of the availability filter of the books table.
BookFilters == {"all", "available", "borrowed"}

\* The callback of books.filter in filteredBooks (of title, author and isbn
\* the model keeps the title).
inBookFilter(book) ==
    LET matches ==
            includes(toLowerCase(Chars(book.title)), toLowerCase(Chars(searchQuery)))
    IN  CASE filter = "available" -> matches /\ book.count > 0
          [] filter = "borrowed" -> matches /\ book.count < book.totalCopies
          [] OTHER -> matches

filteredBooks == Filter(books, inBookFilter)

\* The callback of users.filter in filteredUsers (of name, email and phone
\* the model keeps the name).
inUserFilter(user) ==
    includes(toLowerCase(Chars(user.name)), toLowerCase(Chars(userSearchQuery)))

filteredUsers == Filter(users, inUserFilter)

totalBookPages == PagesOf(Len(filteredBooks))

totalUserPages == PagesOf(Len(filteredUsers))

\* The rows of the books table.
paginatedBooks ==
    Slice(filteredBooks, (currentBookPage - 1) * ROWS_PER_PAGE,
          currentBookPage * ROWS_PER_PAGE)

\* The rows of the members table of the Manage Users dialog.
paginatedUsers ==
    Slice(filteredUsers, (currentUserPage - 1) * ROWS_PER_PAGE,
          currentUserPage * ROWS_PER_PAGE)

\* onChange of the search box of the books table; the effect on
\* [searchQuery, filter] sets currentBookPage to 1.
SetBookSearchQuery ==
    /\ BookManagerShown
    /\ \E q \in Queries :
          /\ searchQuery' = q
          /\ currentBookPage' = PageAfterChange(q # searchQuery, currentBookPage)
    /\ UNCHANGED <<activeSection, crashed, error, now, data, filter,
                   currentPage, currentUserPage, userSearchQuery,
                   localStorage, dash>>

\* onChange of the availability select of the books table.
SetBookFilter ==
    /\ BookManagerShown
    /\ \E f \in BookFilters :
          /\ filter' = f
          /\ currentBookPage' = PageAfterChange(f # filter, currentBookPage)
    /\ UNCHANGED <<activeSection, crashed, error, now, data, searchQuery,
                   currentPage, currentUserPage, userSearchQuery,
                   localStorage, dash>>

\* onChange of the search box of the Manage Users dialog; the effect on
\* [userSearchQuery] sets currentUserPage to 1.
SetUserSearchQuery ==
    /\ BookManagerShown
    /\ \E q \in Queries :
          /\ userSearchQuery' = q
          /\ currentUserPage' = PageAfterChange(q # userSearchQuery, currentUserPage)
    /\ UNCHANGED <<activeSection, crashed, error, now, data, searchQuery, filter,
                   currentPage, currentBookPage,
                   localStorage, dash>>

\* Pagination of the books table: onPageChange={setCurrentBookPage}, the
\* buttons as in ClickPage.
ClickBookPage ==
    /\ BookManagerShown
    /\ Len(filteredBooks) > 0
    /\ \/ currentBookPage # 1 /\ currentBookPage' = currentBookPage - 1
       \/ /\ currentBookPage # totalBookPages
          /\ currentBookPage < MaxPage
          /\ currentBookPage' = currentBookPage + 1
    /\ UNCHANGED <<activeSection, crashed, error, now, data, searchQuery, filter,
                   currentPage, currentUserPage, userSearchQuery,
                   localStorage, dash>>

\* Pagination of the members table: onPageChange={setCurrentUserPage}.
ClickUserPage ==
    /\ BookManagerShown
    /\ Len(filteredUsers) > 0
    /\ \/ currentUserPage # 1 /\ currentUserPage' = currentUserPage - 1
       \/ /\ currentUserPage # totalUserPages
          /\ currentUserPage < MaxPage
          /\ currentUserPage' = currentUserPage + 1
    /\ UNCHANGED <<activeSection, crashed, error, now, data, searchQuery, filter,
                   currentPage, currentBookPage, userSearchQuery,
                   localStorage, dash>>

\* formData, with the fields of the book form that the model keeps.
FormData(title, count) == [title |-> title, count |-> count]

\* setBooks(prevBooks => [...prevBooks, newBook]) with
\* newBook = { id: Date.now(), ...formData, totalCopies: formData.count }
BooksAfterAdd(prevBooks, formData, t) ==
    Append(prevBooks, [id |-> Num(t), title |-> formData.title,
                       count |-> formData.count, totalCopies |-> formData.count])

handleAddBook(formData, t) ==
    /\ books' = BooksAfterAdd(books, formData, t)
    /\ now' = t
    /\ UNCHANGED <<activeSection, crashed, error, users, borrows, view>>
    /\ SaveEffects

\* The Add New Book form is opened, filled in and submitted.
SubmitAddBook ==
    /\ BookManagerShown
    /\ Len(books) < MaxBooks
    /\ \E title \in Titles, count \in CountInputs, t \in Instants :
          t > now /\ handleAddBook(FormData(title, count), t)

\* Fault variant of BooksAfterUpdate: totalCopies follows the count field.
BooksAfterUpdateNoMax(prevBooks, editingBook, formData) ==
    Map(prevBooks, LAMBDA book :
        IF StrictEq(book.id, editingBook.id)
        THEN [book EXCEPT !.title = formData.title, !.count = formData.count,
                          !.totalCopies = formData.count]
        ELSE book)

\* setBooks(prevBooks => prevBooks.map(book => book.id === editingBook.id
\*   ? { ...book, ...formData,
\*       totalCopies: Math.max(formData.count, book.totalCopies) } : book))
BooksAfterUpdate(prevBooks, editingBook, formData) ==
    Map(prevBooks, LAMBDA book :
        IF StrictEq(book.id, editingBook.id)
        THEN [book EXCEPT !.title = formData.title, !.count = formData.count,
                          !.totalCopies = Max(formData.count, book.totalCopies)]
        ELSE book)

handleUpdateBook(editingBook, formData) ==
    /\ books' = BooksAfterUpdate(books, editingBook, formData)
    /\ UNCHANGED <<activeSection, crashed, error, now, users, borrows, view>>
    /\ SaveEffects

\* handleEditBook(book) opens the form on a row's book, filled with the
\* book's fields; the count field is set and the form submitted.
SubmitUpdateBook ==
    /\ BookManagerShown
    /\ LET rows == paginatedBooks
       IN  \E i \in 1..Len(rows), count \in CountInputs :
              handleUpdateBook(rows[i], FormData(rows[i].title, count))

\* The same form, with the title retyped and the count left as it is.
SubmitRetitleBook ==
    /\ BookManagerShown
    /\ LET rows == paginatedBooks
       IN  \E i \in 1..Len(rows), title \in Titles :
              handleUpdateBook(rows[i], FormData(title, rows[i].count))

\* The book form submitted while the clock still reads the value of the
\* event before.
SubmitAddBookSameClock ==
    /\ BookManagerShown
    /\ Len(books) < MaxBooks
    /\ \E title \in Titles, count \in CountInputs :
          handleAddBook(FormData(title, count), now)

\* Fault variant of BooksAfterDelete: the first book is removed, whatever
\* the id.
BooksAfterDeleteFirst(prevBooks, bookId) == Tail(prevBooks)

\* setBooks(prevBooks => prevBooks.filter(book => book.id !== bookId))
BooksAfterDelete(prevBooks, bookId) ==
    Filter(prevBooks, LAMBDA book : ~StrictEq(book.id, bookId))

\* window.confirm(...) answered with `confirmed`.
handleDeleteBook(bookId, confirmed) ==
    /\ books' = IF confirmed THEN BooksAfterDelete(books, bookId) ELSE books
    /\ UNCHANGED <<activeSection, crashed, error, now, users, borrows, view>>
    /\ SaveEffects

ClickDeleteBook ==
    /\ BookManagerShown
    /\ LET rows == paginatedBooks
       IN  \E i \in 1..Len(rows), confirmed \in BOOLEAN :
              handleDeleteBook(rows[i].id, confirmed)

\* AddUserForm.handleSubmit without editingUser:
\* setUsers(prevUsers => [...prevUsers, { id: Date.now(), ...localFormData }])
UsersAfterAdd(prevUsers, name, t) ==
    Append(prevUsers, [id |-> Num(t), name |-> name])

\* AddUserForm.handleSubmit with editingUser:
\* setUsers(prevUsers => prevUsers.map(user => user.id === editingUser.id
\*   ? { ...user, ...localFormData } : user))
UsersAfterUpdate(prevUsers, editingUser, name) ==
    Map(prevUsers, LAMBDA user :
        IF StrictEq(user.id, editingUser.id)
        THEN [user EXCEPT !.name = name]
        ELSE user)

SubmitAddUser ==
    /\ BookManagerShown
    /\ Len(users) < MaxUsers
    /\ \E name \in Names, t \in Instants :
          /\ t > now
          /\ users' = UsersAfterAdd(users, name, t)
          /\ now' = t
    /\ UNCHANGED <<activeSection, crashed, error, books, borrows, view>>
    /\ SaveEffects

\* The member form submitted while the clock still reads the value of the
\* event before.
SubmitAddUserSameClock ==
    /\ BookManagerShown
    /\ Len(users) < MaxUsers
    /\ \E name \in Names : users' = UsersAfterAdd(users, name, now)
    /\ UNCHANGED <<activeSection, crashed, error, now, books, borrows, view>>
    /\ SaveEffects

SubmitUpdateUser ==
    /\ BookManagerShown
    /\ LET rows == paginatedUsers
       IN  \E i \in 1..Len(rows), name \in Names :
              users' = UsersAfterUpdate(users, rows[i], name)
    /\ UNCHANGED <<activeSection, crashed, error, now, books, borrows, view>>
    /\ SaveEffects

\* setUsers(prevUsers => prevUsers.filter(user => user.id !== userId))
UsersAfterDelete(prevUsers, userId) ==
    Filter(prevUsers, LAMBDA user : ~StrictEq(user.id, userId))

handleDeleteUser(userId, confirmed) ==
    /\ users' = IF confirmed THEN UsersAfterDelete(users, userId) ELSE users
    /\ UNCHANGED <<activeSection, crashed, error, now, books, borrows, view>>
    /\ SaveEffects

ClickDeleteUser ==
    /\ BookManagerShown
    /\ LET rows == paginatedUsers
       IN  \E i \in 1..Len(rows), confirmed \in BOOLEAN :
              handleDeleteUser(rows[i].id, confirmed)

(***************************************************************************)
(* Dashboard                                                               *)
(***************************************************************************)
\* x || 0
OrZero(x) == IF x = 0 THEN 0 ELSE x

RECURSIVE Reduce(_, _, _)
\* s.reduce((acc, book) => acc + (book[field] || 0), acc)
Reduce(s, field, acc) ==
    IF s = <<>> THEN acc
    ELSE Reduce(Tail(s), field, acc + OrZero(Head(s)[field]))

\* stats.availableBooks
availableBooks == Reduce(books, "count", 0)

\* The constant totalCopies of the stats computation.
totalCopies == Reduce(books, "totalCopies", 0)

\* stats.borrowedBooks, the figure of the 'Borrowed Books' card.
borrowedBooks == totalCopies - availableBooks

\* stats: null when the computation threw, else the figures.
stats ==
    IF StatsThrows(books) THEN [kind |-> "null"]
    ELSE [kind |-> "object", totalBooks |-> Len(books),
          availableBooks |-> availableBooks, borrowedBooks |-> borrowedBooks,
          totalMembers |-> Len(users)]

DashboardMounted == activeSection = "dashboard" /\ ~crashed

\* The Dashboard renders its page: neither the spinner (isLoading is tested
\* first) nor the error box.
DashboardShown == DashboardMounted /\ ~isLoading /\ error = "null"

\* The Dashboard renders the error box.
ErrorShown == DashboardMounted /\ ~isLoading /\ error # "null"

\* The callback of setTimeout(..., 100) in the loading effect:
\*   if (books && users && stats) { setIsLoading(false); }
\* (books and users, being arrays, are truthy.)
TimerFires ==
    /\ DashboardMounted
    /\ timer
    /\ timer' = FALSE
    /\ isLoading' = IF stats.kind # "null" THEN FALSE ELSE isLoading
    /\ UNCHANGED <<activeSection, crashed, error, now, data, searchQuery, filter,
                   currentPage, currentBookPage, currentUserPage, userSearchQuery,
                   timeframe, localStorage>>

Timeframes == {"weekly", "monthly", "yearly"}

\* onChange of the timeframe select: setTimeframe(e.target.value).  stats
\* is computed again (timeframe is a dependency of its useMemo), so the
\* loading effect clears its timeout and sets a new one.
SetTimeframe ==
    /\ DashboardShown
    /\ \E tf \in Timeframes \ {timeframe} : timeframe' = tf
    /\ timer' = TRUE
    /\ UNCHANGED <<activeSection, crashed, error, now, data, searchQuery, filter,
                   currentPage, currentBookPage, currentUserPage, userSearchQuery,
                   isLoading, localStorage>>

Next ==
    \/ \E s \in Sections : SetActiveSection(s)
    \/ Reload
    \/ Tick
    \/ SubmitBorrow
    \/ ClickReturn
    \/ SubmitAddBook
    \/ SubmitUpdateBook
    \/ ClickDeleteBook
    \/ SubmitAddUser
    \/ SubmitUpdateUser
    \/ ClickDeleteUser

Spec == Init /\ [][Next]_vars

\* The Borrow Manager with its search box and status filter in use.
NextView ==
    \/ \E s \in Sections : SetActiveSection(s)
    \/ Tick
    \/ TickMorning
    \/ SetSearchQuery
    \/ SetFilter
    \/ SubmitBorrow
    \/ ClickReturn
    \/ SubmitRetitleBook
    \/ ClickDeleteBook
    \/ SubmitUpdateUser

SpecView == Init /\ [][NextView]_vars

\* handleReturn called with any id, as a caller other than a row's button
\* calls it.
NextHandlers ==
    \/ \E s \in Sections : SetActiveSection(s)
    \/ Tick
    \/ SubmitBorrow
    \/ ClickReturn
    \/ CallReturn

SpecHandlers == Init /\ [][NextHandlers]_vars

\* Submissions that read the same clock value: what the page does while
\* the clock does not advance.
NextSameClock ==
    \/ \E s \in Sections : SetActiveSection(s)
    \/ SubmitBorrowSameClock
    \/ ClickReturn
    \/ SubmitAddBookSameClock
    \/ SubmitUpdateBook
    \/ ClickDeleteBook
    \/ SubmitAddUserSameClock

SpecSameClock == Init /\ [][NextSameClock]_vars

(***************************************************************************)
(* The tables with more than one page of rows: a library in which          *)
(* ROWS_PER_PAGE + 1 books, members and borrows have been recorded and     *)
(* stored.                                                                 *)
(***************************************************************************)
ManyRows == ROWS_PER_PAGE + 1

ManyBooks ==
    [i \in 1..ManyRows |->
        [id |-> Num(i), title |-> IF i % 2 = 1 THEN "Emma" ELSE "Dune",
         count |-> 1, totalCopies |-> 2]]

ManyUsers ==
    [i \in 1..ManyRows |-> [id |-> Text(i), name |-> IF i % 2 = 1 THEN "Ann" ELSE "Bob"]]

\* One active record per book and member, the latest first.
ManyBorrows ==
    [i \in 1..ManyRows |->
        LET n == ManyRows + 1 - i
        IN  [id |-> Num(n), bookId |-> Num(n), userId |-> Text(n),
             userName |-> ManyUsers[n].name, borrowDate |-> 0, dueDate |-> n % 2,
             returnDate |-> Null, status |-> "active"]]

InitPages ==
    /\ activeSection = "dashboard"
    /\ crashed = FALSE
    /\ error = "null"
    /\ isLoading = TRUE
    /\ timer = TRUE
    /\ timeframe = "monthly"
    /\ now = 10
    /\ localStorage = Saved([k \in Keys |-> Absent], "borrows",
                            ManyBooks, ManyUsers, ManyBorrows)
    /\ books = Load(localStorage, "books", SeedBooks)
    /\ users = Load(localStorage, "users", SeedUsers)
    /\ borrows = Load(localStorage, "borrows", SeedBorrows)
    /\ searchQuery = ""
    /\ filter = "all"
    /\ currentPage = 1
    /\ currentBookPage = 1
    /\ currentUserPage = 1
    /\ userSearchQuery = ""

\* Returns, while more than a page of active records is left.
ClickReturnOverPage ==
    /\ Len(Filter(borrows, ReturnButtonShown)) > ROWS_PER_PAGE
    /\ ClickReturn

\* Deletions of books, while more than a page of books is left.
ClickDeleteBookOverPage == Len(books) > ROWS_PER_PAGE /\ ClickDeleteBook

NextPages ==
    \/ \E s \in Sections : SetActiveSection(s)
    \/ SetSearchQuery
    \/ SetFilter
    \/ ClickPage
    \/ ClickReturnOverPage
    \/ SetBookSearchQuery
    \/ SetBookFilter
    \/ SetUserSearchQuery
    \/ ClickBookPage
    \/ ClickUserPage
    \/ ClickDeleteBookOverPage

SpecPages == InitPages /\ [][NextPages]_vars

(***************************************************************************)
(* The Dashboard with its loading timer, started on a localStorage that   *)
(* holds any of the items Load distinguishes, an array with a null element *)
(* among them.                                                             *)
(***************************************************************************)
BooksItems ==
    {Absent, EmptyText, NotJSON, JSONStringify(SeedBooks), JSONStringify(<<>>),
     JSONStringify(<<NullElement>>)}

UsersItems == {Absent, NotJSON, JSONStringify(SeedUsers), JSONStringify(<<>>)}

InitDashboard ==
    /\ activeSection = "dashboard"
    /\ crashed = FALSE
    /\ now = 10
    /\ \E b \in BooksItems, u \in UsersItems :
          LET store == [k \in Keys |->
                          CASE k = "books" -> b [] k = "users" -> u [] OTHER -> Absent]
          IN  /\ books = Load(store, "books", SeedBooks)
              /\ users = Load(store, "users", SeedUsers)
              /\ borrows = SeedBorrows
              /\ localStorage = Saved(store, "dashboard", books, users, borrows)
    /\ error = ErrorOfMount("dashboard", books)
    /\ isLoading = TRUE
    /\ timer = TRUE
    /\ timeframe = "monthly"
    /\ searchQuery = ""
    /\ filter = "all"
    /\ currentPage = 1
    /\ currentBookPage = 1
    /\ currentUserPage = 1
    /\ userSearchQuery = ""

NextDashboard ==
    \/ \E s \in Sections : SetActiveSection(s)
    \/ Reload
    \/ TimerFires
    \/ SetTimeframe
    \/ ClickReturn
    \/ ClickDeleteBook
    \/ ClickDeleteUser

\* A timeout that is set and not cleared fires.
SpecDashboard == InitDashboard /\ [][NextDashboard]_vars /\ WF_vars(TimerFires)

(***************************************************************************)
(* Properties                                                              *)
(***************************************************************************)
\* The active records that reference a book.
ActiveFor(book) ==
    {i \in 1..Len(borrows) :
        borrows[i].status = "active" /\ StrictEq(borrows[i].bookId, book.id)}

SeedBorrowIds == {SeedBorrows[i].id : i \in 1..Len(SeedBorrows)}

\* A step adds one borrow record (at the head of the list).
BorrowCreated == Len(borrows') = Len(borrows) + 1

\* Record i of borrows is the same record, at its new position, in borrows'.
Shifted(i) == i + Len(borrows') - Len(borrows)

\* C1: every book satisfies 0 <= count <= totalCopies in every reachable
\* state.
C1_CountWithinTotal ==
    \A i \in 1..Len(books) :
        0 <= books[i].count /\ books[i].count <= books[i].totalCopies

\* C2: for every book, the number of active borrow records that reference
\* it equals totalCopies - count.
C2_ActiveEqualsOnLoan ==
    \A i \in 1..Len(books) :
        Cardinality(ActiveFor(books[i])) = books[i].totalCopies - books[i].count

\* C3: a borrow record is created only for a book that exists and has
\* count > 0 when the form is submitted; in particular no step creates a
\* record while no book has count > 0, and no step makes a count negative.
C3_NoBorrowAtZero ==
    [][/\ BorrowCreated =>
            /\ \E book \in Range(books) : StrictEq(book.id, borrows'[1].bookId)
            /\ \A book \in Range(books) :
                  StrictEq(book.id, borrows'[1].bookId) => book.count > 0
       /\ \A i \in 1..Len(books') : books'[i].count >= 0]_vars

\* The borrow form is available while some book has no copy left, after a
\* borrow of this run took the last copy of a book.
C3_Witness ==
    /\ BorrowManagerShown
    /\ NewBorrowEnabled
    /\ Len(borrows) < MaxBorrows
    /\ \E book \in Range(books) : book.count = 0
    /\ \E i \in 1..Len(borrows) : borrows[i].id \notin SeedBorrowIds

\* C4: a returned record is never returned again: no step of the Borrow
\* Manager is a return of a record whose status is 'returned', and every
\* step leaves a returned record (its returnDate included) as it is.
C4_NoSecondReturn ==
    [][\A i \in 1..Len(borrows) :
          borrows[i].status = "returned" =>
            /\ ~(BorrowManagerShown /\ handleReturn(borrows[i].id))
            /\ Shifted(i) \in 1..Len(borrows')
            /\ borrows'[Shifted(i)] = borrows[i]]_vars

\* The Borrow Manager shows a record that was returned on an earlier day, so
\* that a second return would stamp another date.
C4_Witness ==
    /\ BorrowManagerShown
    /\ \E i \in 1..Len(borrows) :
          /\ borrows[i].status = "returned"
          /\ borrows[i].returnDate < ISODate(now)
          /\ \E book \in Range(books) : StrictEq(book.id, borrows[i].bookId)

\* C5: in every reachable state, for every borrow the form can submit,
\* returning the record just created gives back the books collection (count
\* and totalCopies of every book) held before the borrow.
C5_RoundTrip ==
    \A selectedUser \in UserOptions, selectedBook \in BookOptions, t \in Instants :
        LET newBorrow == NewBorrow(selectedUser, selectedBook, Num(14), t)
            nextBorrows == BorrowsAfterBorrow(borrows, newBorrow)
            nextBooks == BooksAfterBorrow(books, selectedBook)
            borrow == Find(nextBorrows, LAMBDA b : StrictEq(b.id, newBorrow.id))
        IN  /\ nextBooks # books
            /\ BooksAfterReturn(nextBooks, borrow.bookId) = books

\* A record created in this run has been returned and its book has a copy
\* available again.
C5_Witness ==
    \E i \in 1..Len(borrows) :
        /\ borrows[i].id \notin SeedBorrowIds
        /\ borrows[i].status = "returned"
        /\ \E book \in Range(books) :
              StrictEq(book.id, borrows[i].bookId) /\ book.count > 0

\* C6: every step keeps every borrow record, in its place counted from the
\* end of the list, with the same id; its status stays the same or goes from
\* 'active' to 'returned'; and every record a step adds is 'active'.
C6_StatusMachine ==
    [][/\ Len(borrows') >= Len(borrows)
       /\ \A i \in 1..Len(borrows) :
            /\ borrows'[Shifted(i)].id = borrows[i].id
            /\ \/ borrows'[Shifted(i)].status = borrows[i].status
               \/ /\ borrows[i].status = "active"
                  /\ borrows'[Shifted(i)].status = "returned"
       /\ \A j \in 1..(Len(borrows') - Len(borrows)) :
            borrows'[j].status = "active"]_vars

\* Both statuses are present: one record is still active after another was
\* returned.
C6_Witness ==
    /\ \E i \in 1..Len(borrows) : borrows[i].status = "returned"
    /\ \E i \in 1..Len(borrows) :
          borrows[i].status = "active" /\ borrows[i].id \notin SeedBorrowIds

\* C7: a successful borrow of book b by member m for d days adds exactly one
\* record, 'active', without returnDate, with bookId = b, userId = m and
\* dueDate = borrowDate + d; it lowers the count of b by 1 and changes no
\* other book, no member and no existing record.
C7_BorrowEffect ==
    [][\A selectedUser \in UserOptions, selectedBook \in BookOptions,
          borrowDuration \in DurationInputs, t \in Instants :
          ( /\ BorrowManagerShown
            /\ DurationValid(borrowDuration)
            /\ handleBorrow(selectedUser, selectedBook, borrowDuration, t)
            /\ BorrowCreated ) =>
            /\ borrows'[1].status = "active"
            /\ borrows'[1].returnDate = Null
            /\ String(borrows'[1].bookId) = selectedBook
            /\ borrows'[1].userId = selectedUser
            /\ borrows'[1].dueDate = borrows'[1].borrowDate + borrowDuration.v
            /\ SubSeq(borrows', 2, Len(borrows')) = borrows
            /\ users' = users
            /\ books' = [j \in 1..Len(books) |->
                           IF String(books[j].id) = selectedBook
                           THEN [books[j] EXCEPT !.count = @ - 1]
                           ELSE books[j]]]_vars

C9_UnknownMemberRejected ==
    [][\A selectedUser \in UserOptions, selectedBook \in BookOptions,
          borrowDuration \in DurationInputs, t \in Instants :
          ( /\ BorrowManagerShown
            /\ DurationValid(borrowDuration)
            /\ ~Found(users, LAMBDA u : StrictEq(u.id, selectedUser))
            /\ handleBorrow(selectedUser, selectedBook, borrowDuration, t) ) =>
            /\ error' # "null"
            /\ ~crashed'
            /\ UNCHANGED data]_vars

\* C10: every step that creates a borrow record from a form submitted with
\* duration d has 1 <= d <= 30 (and d a number); with any other content of
\* the duration field no step creates a record.
C10_DurationInRange ==
    [][\A selectedUser \in UserOptions, selectedBook \in BookOptions,
          borrowDuration \in DurationInputs, t \in Instants :
          ( /\ BorrowManagerShown
            /\ handleBorrow(selectedUser, selectedBook, borrowDuration, t)
            /\ BorrowCreated ) =>
            /\ borrowDuration.kind = "number"
            /\ 1 <= borrowDuration.v
            /\ borrowDuration.v <= 30]_vars

\* A record of this run exists, created with a duration the field accepts.
C10_Witness ==
    \E i \in 1..Len(borrows) :
        /\ borrows[i].id \notin SeedBorrowIds
        /\ borrows[i].dueDate - borrows[i].borrowDate >= 14

\* C12: a return of a record whose book is not in the books collection is
\* reported as an error and does not mark the record as returned.
C12_ReturnOfDeletedBook ==
    [][\A i \in 1..Len(borrows) :
          ( /\ BorrowManagerShown
            /\ ReturnButtonShown(borrows[i])
            /\ ~Found(books, LAMBDA book : StrictEq(book.id, borrows[i].bookId))
            /\ handleReturn(borrows[i].id) ) =>
            /\ error' # "null"
            /\ borrows' = borrows]_vars

\* C13: a step that raises the totalCopies of a book raises its count by the
\* same amount, so that totalCopies - count is the same before and after.
C13_RaiseKeepsOnLoan ==
    [][\A i \in 1..Len(books) :
          ( /\ Len(books') = Len(books)
            /\ books'[i].id = books[i].id
            /\ books'[i].totalCopies > books[i].totalCopies ) =>
            books'[i].totalCopies - books'[i].count
                = books[i].totalCopies - books[i].count]_vars

SeedBookIds == {SeedBooks[i].id : i \in 1..Len(SeedBooks)}

\* C14: a book that a step adds has totalCopies = count, and no step lowers
\* the totalCopies of a book that it keeps.
C14_TotalCopiesNeverLowered ==
    [][/\ \A i \in 1..Len(books), j \in 1..Len(books') :
            books'[j].id = books[i].id =>
                books'[j].totalCopies >= books[i].totalCopies
       /\ \A j \in 1..Len(books') :
            (\A i \in 1..Len(books) : books[i].id # books'[j].id) =>
                books'[j].totalCopies = books'[j].count]_vars

\* A book added in this run has fewer copies available than owned although
\* no record references it: an edit lowered its count and kept totalCopies.
C14_Witness ==
    \E book \in Range(books) :
        /\ book.id \notin SeedBookIds
        /\ book.count < book.totalCopies
        /\ \A i \in 1..Len(borrows) : ~StrictEq(borrows[i].bookId, book.id)

\* C16: every borrow record references a book of the books collection and a
\* member of the users collection.
C16_ReferentialIntegrity ==
    \A i \in 1..Len(borrows) :
        /\ Found(books, LAMBDA book : StrictEq(book.id, borrows[i].bookId))
        /\ Found(users, LAMBDA user : StrictEq(user.id, borrows[i].userId))

\* C20: a step that creates a record puts it before all the records there
\* were, in their order; a step that creates none keeps every record at its
\* position; and the list is in the order of creation, latest first (the
\* id of a record is the clock value of its creation).
C20_MostRecentFirst ==
    [][/\ BorrowCreated =>
            /\ \A i \in 1..Len(borrows) : borrows'[i + 1].id = borrows[i].id
            /\ \A i \in 1..Len(borrows) : borrows'[1].id # borrows[i].id
       /\ Len(borrows') = Len(borrows) =>
            \A i \in 1..Len(borrows) : borrows'[i].id = borrows[i].id
       /\ \A i, j \in 1..Len(borrows') :
            i < j => borrows'[i].id.v > borrows'[j].id.v]_vars

\* Three records, the latest still active at the head while the one created
\* before it has been returned in its place.
C20_Witness ==
    /\ Len(borrows) >= 3
    /\ borrows[1].status = "active"
    /\ borrows[2].status = "returned"
    /\ borrows[2].id \notin SeedBorrowIds

\* The ids of a collection, in its order.
Ids(s) == [i \in 1..Len(s) |-> s[i].id]

\* No two records of a collection have the same id.
UniqueIds(s) == \A i, j \in 1..Len(s) : s[i].id = s[j].id => i = j

\* C11: handleReturn called with an id that no borrow record has sets the
\* error message and leaves books, users and borrows as they are.
C11_UnknownBorrowReported ==
    [][\A borrowId \in ReturnIds :
          ( /\ BorrowManagerMounted
            /\ ~Found(borrows, LAMBDA b : StrictEq(b.id, borrowId))
            /\ handleReturn(borrowId) ) =>
            /\ error' = "Failed to process return: Borrow record not found"
            /\ UNCHANGED data]_vars

\* The error box is shown for a return, with a record of this run in the
\* list (so that some of the ids handleReturn is called with are known and
\* others are not).
C11_Witness ==
    /\ BorrowManagerMounted
    /\ error = "Failed to process return: Borrow record not found"
    /\ \E i \in 1..Len(borrows) : borrows[i].id \notin SeedBorrowIds

\* C15: after every step no two books, no two members and no two borrow
\* records have the same id, also when submissions read the same clock
\* value; and a step that adds or removes no record of a collection leaves
\* the ids of that collection as they are.
C15_IdsUnique ==
    [][/\ UniqueIds(books') /\ UniqueIds(users') /\ UniqueIds(borrows')
       /\ Len(books') = Len(books) => Ids(books') = Ids(books)
       /\ Len(users') = Len(users) => Ids(users') = Ids(users)
       /\ Len(borrows') = Len(borrows) => Ids(borrows') = Ids(borrows)]_vars

\* The day d is over at the current time, by the calendar of UTC or by the
\* local calendar.
DayAfter(d) == ISODate(now) > d \/ LocalTime(now) \div 24 > d

\* C17: a record is overdue exactly when it is active and the current time
\* is after its due date (the due day is over); the overdue count counts
\* those records; and a step in which only time passes changes no record,
\* book or member.
C17_OverdueAfterDueDate ==
    [][/\ \A i \in 1..Len(borrows) :
            isOverdue(borrows[i]) <=>
                (borrows[i].status = "active" /\ DayAfter(borrows[i].dueDate))
       /\ overdueCount =
            Cardinality({i \in 1..Len(borrows) :
                borrows[i].status = "active" /\ DayAfter(borrows[i].dueDate)})
       /\ (Tick \/ TickMorning) => UNCHANGED data]_vars

\* C18: with the status filter 'overdue', a record whose dueDate is before
\* the current time is in the filtered list if and only if it is active and
\* matches the search box (every record matches the empty search box); no
\* record with the id of a returned record is in the list, at any time;
\* and a returned record is still returned, under the same id, after every
\* step, so that it is in no 'overdue' list later either.
C18_OverdueFilter ==
    [][/\ filter = "overdue" =>
            LET listed == Range(filteredBorrows)
                listedIds == {b.id : b \in listed}
            IN  \A i \in 1..Len(borrows) :
                    /\ DateParse(borrows[i].dueDate) < now =>
                          (borrows[i] \in listed <=>
                              ( /\ borrows[i].status = "active"
                                /\ matchesSearch(borrows[i]) ))
                    /\ searchQuery = "" => matchesSearch(borrows[i])
                    /\ borrows[i].status = "returned" =>
                          borrows[i].id \notin listedIds
       /\ \A i \in 1..Len(borrows) :
            borrows[i].status = "returned" =>
                /\ Shifted(i) \in 1..Len(borrows')
                /\ borrows'[Shifted(i)].id = borrows[i].id
                /\ borrows'[Shifted(i)].status = "returned"]_vars

\* The 'overdue' list is shown with an empty search box; a record was
\* returned when its dueDate had passed, and another record is active.
C18_Witness ==
    /\ BorrowManagerShown
    /\ filter = "overdue"
    /\ searchQuery = ""
    /\ \E i, j \in 1..Len(borrows) :
          /\ borrows[i].status = "returned"
          /\ DateParse(borrows[i].dueDate) < DateParse(borrows[i].returnDate) + 24
          /\ DateParse(borrows[i].dueDate) < now
          /\ borrows[j].status = "active"

\* needle occurs in hay when the case of the letters is ignored.
OccursIgnoringCase(hay, needle) ==
    \E k \in 0..(Len(hay) - Len(needle)) :
        \A j \in 1..Len(needle) : LowerChar(hay[k + j]) = LowerChar(needle[j])

\* The record matches the query by the member name or by the title of the
\* book it references.
MatchesQuery(borrow) ==
    \/ OccursIgnoringCase(Chars(borrow.userName), Chars(searchQuery))
    \/ \E book \in Range(books) :
          /\ StrictEq(book.id, borrow.bookId)
          /\ OccursIgnoringCase(Chars(book.title), Chars(searchQuery))

\* The record satisfies the status filter.
SatisfiesFilter(borrow) ==
    CASE filter = "all" -> TRUE
      [] filter = "active" -> borrow.status = "active"
      [] filter = "overdue" -> borrow.status = "active" /\ DayAfter(borrow.dueDate)
      [] filter = "returned" -> borrow.status = "returned"

\* C19: the filtered list is the list of borrows restricted, in its order,
\* to the records that match the query and satisfy the status filter; and
\* typing a query or choosing a filter changes no collection.
C19_FilteredList ==
    [][/\ filteredBorrows =
            SelectSeq(borrows, LAMBDA b : MatchesQuery(b) /\ SatisfiesFilter(b))
       /\ (SetSearchQuery \/ SetFilter) => UNCHANGED data]_vars

\* The state of the mounted section that is stored under key k.
StateOf(k) == CASE k = "books" -> books [] k = "users" -> users [] OTHER -> borrows

\* The seed collection of key k.
SeedOf(k) ==
    CASE k = "books" -> SeedBooks [] k = "users" -> SeedUsers [] OTHER -> SeedBorrows

\* C21: once an operation has completed, every collection that the mounted
\* section holds is stored under its key, and the stored text parses to the
\* collection in memory.
C21_StoredEqualsMemory ==
    ~crashed =>
        \A k \in Held(activeSection) :
            /\ localStorage[k].kind = "json"
            /\ JSONParse(localStorage[k]) = StateOf(k)

\* The Borrow Manager after a borrow and a return, with a book that was
\* added in the Book Manager.
C21_Witness ==
    /\ activeSection = "borrows"
    /\ ~crashed
    /\ Len(borrows) > Len(SeedBorrows)
    /\ \E i \in 1..Len(borrows) : borrows[i].status = "returned"
    /\ \E i \in 1..Len(books) : books[i].id \notin SeedBookIds
    /\ JSONParse(localStorage["borrows"]) = borrows

\* C22: a section that mounts reads, for every collection it holds, the
\* collection that the section before it left (an empty one included), and
\* reads the seed where nothing is stored under the key.
C22_LoadReturnsLastSaved ==
    [][(~crashed' /\ (activeSection' # activeSection \/ crashed)) =>
          \A k \in Held(activeSection') :
              /\ StateOf(k)' = StateOf(k)
              /\ localStorage[k].kind = "json" =>
                     StateOf(k)' = JSONParse(localStorage[k])
              /\ localStorage[k].kind = "null" => StateOf(k)' = SeedOf(k)]_vars

\* The Borrow Manager mounted for the first time, after every book was
\* deleted and a member was added in the Book Manager.
C22_Witness ==
    /\ activeSection = "borrows"
    /\ ~crashed
    /\ books = <<>>
    /\ Len(users) > Len(SeedUsers)
    /\ borrows = SeedBorrows

\* C23: the Borrow Manager never crashes, and every borrow record has a
\* defined member name.
C23_NeverCrashes ==
    /\ ~crashed
    /\ \A i \in 1..Len(borrows) : borrows[i].userName # Undefined

\* s without its i-th element.
RemoveAt(s, i) == [j \in 1..(Len(s) - 1) |-> IF j < i THEN s[j] ELSE s[j + 1]]

\* C24: a confirmed deletion of the book (member) of a row removes that
\* book (member) and changes no other book, member or borrow record; a
\* declined deletion changes no collection.
C24_DeleteFrame ==
    [][\A confirmed \in BOOLEAN :
          /\ \A i \in 1..Len(books) :
                (BookManagerShown /\ handleDeleteBook(books[i].id, confirmed)) =>
                    /\ books' = IF confirmed THEN RemoveAt(books, i) ELSE books
                    /\ users' = users
                    /\ borrows' = borrows
          /\ \A i \in 1..Len(users) :
                (BookManagerShown /\ handleDeleteUser(users[i].id, confirmed)) =>
                    /\ users' = IF confirmed THEN RemoveAt(users, i) ELSE users
                    /\ books' = books
                    /\ borrows' = borrows]_vars

\* The first seed book and the seed member have been deleted; a later book
\* and an added member are still there, and so is a borrow record.
C24_Witness ==
    /\ Len(books) >= 1
    /\ \A i \in 1..Len(books) : books[i].id # SeedBooks[1].id
    /\ Len(users) >= 1
    /\ \A i \in 1..Len(users) : users[i].id # SeedUsers[1].id
    /\ Len(borrows) >= 1

\* C27: the userName of a borrow record is the name of the member whose id
\* is the record's userId.
C27_UserNameCurrent ==
    \A i \in 1..Len(borrows), j \in 1..Len(users) :
        StrictEq(users[j].id, borrows[i].userId) =>
            borrows[i].userName = users[j].name

\* C28: the 'Borrowed Books' figure of the Dashboard is the number of
\* active borrow records, and it is not negative.
C28_BorrowedFigure ==
    /\ borrowedBooks = Cardinality({i \in 1..Len(borrows) : borrows[i].status = "active"})
    /\ borrowedBooks >= 0

\* C25: a step of the mounted section that changes the search query or the
\* filter of a table leaves the page of that table at 1.
C25_PageReset ==
    [][activeSection' = activeSection =>
          /\ (activeSection = "borrows" /\ <<searchQuery, filter>>' # <<searchQuery, filter>>)
                => currentPage' = 1
          /\ (activeSection = "books" /\ <<searchQuery, filter>>' # <<searchQuery, filter>>)
                => currentBookPage' = 1
          /\ (activeSection = "books" /\ userSearchQuery' # userSearchQuery)
                => currentUserPage' = 1]_vars

\* The last record of the borrows list, a row of page 2, has been returned,
\* and the filter has then been set to 'returned': the table is on page 1.
C25_Witness ==
    /\ activeSection = "borrows"
    /\ Len(borrows) > ROWS_PER_PAGE
    /\ borrows[Len(borrows)].status = "returned"
    /\ filter = "returned"
    /\ currentPage = 1

\* C26: while a table's filtered list is not empty, the page of the table
\* is between 1 and the number of pages of that list.
C26_PageInRange ==
    /\ (activeSection = "borrows" /\ ~crashed /\ Len(filteredBorrows) > 0) =>
            (1 <= currentPage /\ currentPage <= totalPages)
    /\ (activeSection = "books" /\ ~crashed /\ Len(filteredBooks) > 0) =>
            (1 <= currentBookPage /\ currentBookPage <= totalBookPages)
    /\ (activeSection = "books" /\ ~crashed /\ Len(filteredUsers) > 0) =>
            (1 <= currentUserPage /\ currentUserPage <= totalUserPages)

\* C29: on a mounted Dashboard the loading flag becomes false, and the
\* error message is shown once the statistics could not be computed.  Only
\* the timeout of the loading effect clears the flag, so a mounted
\* Dashboard that has no timeout pending has cleared it, and then shows the
\* error message if there is one.
C29_LoadingEnds ==
    (DashboardMounted /\ ~timer) =>
        /\ ~isLoading
        /\ error # "null" => ErrorShown
====
